---- MODULE Spec2Model ----
(***************************************************************************)
(* Model of git-tagger: the semantic-version helpers (internal/utils,      *)
(* internal/git), the commit classifier and IncrementVersion               *)
(* (internal/version) and the tagging run UpdateUntaggedCommits over a     *)
(* git repository of commits, branches and tags.                           *)
(*                                                                         *)
(* Text (tag names, versions, commit messages) is a sequence of one-       *)
(* character strings, so that splitting, parsing, formatting and pattern   *)
(* matching are computed the way the Go code computes them.                *)
(***************************************************************************)
EXTENDS Integers, Sequences, FiniteSets, TLC

\* ------------------------------------------------------------------------
\* Bounds of the model
\* ------------------------------------------------------------------------
MaxCommits == 3

MaxManualTags == 1

MaxRuns == 2

MaxComp == 2

\* ------------------------------------------------------------------------
\* Characters
\* ------------------------------------------------------------------------
Digits == <<"0", "1", "2", "3", "4", "5", "6", "7", "8", "9">>

Upper == <<"A", "B", "C", "D", "E", "F", "G", "H", "I", "J", "K", "L", "M",
           "N", "O", "P", "Q", "R", "S", "T", "U", "V", "W", "X", "Y", "Z">>

Lower == <<"a", "b", "c", "d", "e", "f", "g", "h", "i", "j", "k", "l", "m",
           "n", "o", "p", "q", "r", "s", "t", "u", "v", "w", "x", "y", "z">>

\* the characters of the model in byte order (the order `git tag` lists by)
ByteOrder == <<" ", "+", "-", ".">> \o Digits \o <<":">> \o Upper \o Lower

Range(s) == {s[i] : i \in 1..Len(s)}

IsDigit(c) == c \in Range(Digits)

IsAlnum(c) == c \in Range(Digits) \cup Range(Upper) \cup Range(Lower)

DigitVal(c) == CHOOSE d \in 0..9 : Digits[d + 1] = c

Code(c) == CHOOSE i \in 1..Len(ByteOrder) : ByteOrder[i] = c

Nil == "nil"

\* ------------------------------------------------------------------------
\* Go library functions as the code uses them
\* ------------------------------------------------------------------------
HasPrefix(s, p) == Len(s) >= Len(p) /\ SubSeq(s, 1, Len(p)) = p

Contains(s, sub) ==
    \E i \in 1..(Len(s) + 1) :
        i + Len(sub) - 1 <= Len(s) /\ SubSeq(s, i, i + Len(sub) - 1) = sub

TrimPrefix(s, p) == IF HasPrefix(s, p) THEN SubSeq(s, Len(p) + 1, Len(s)) ELSE s

\* index of the first occurrence of character c in s, 0 when absent
IndexOf(s, c) ==
    IF \E i \in 1..Len(s) : s[i] = c
    THEN CHOOSE i \in 1..Len(s) : s[i] = c /\ \A j \in 1..(i - 1) : s[j] # c
    ELSE 0

RECURSIVE Split(_, _)
Split(s, sep) ==
    IF IndexOf(s, sep) = 0
    THEN <<s>>
    ELSE <<SubSeq(s, 1, IndexOf(s, sep) - 1)>>
         \o Split(SubSeq(s, IndexOf(s, sep) + 1, Len(s)), sep)

SplitN2(s, sep) ==
    IF IndexOf(s, sep) = 0
    THEN <<s>>
    ELSE <<SubSeq(s, 1, IndexOf(s, sep) - 1), SubSeq(s, IndexOf(s, sep) + 1, Len(s))>>

RECURSIVE DigitsValue(_)
DigitsValue(s) ==
    IF s = <<>> THEN 0
    ELSE 10 * DigitsValue(SubSeq(s, 1, Len(s) - 1)) + DigitVal(s[Len(s)])

AllDigits(s) == Len(s) > 0 /\ \A i \in 1..Len(s) : IsDigit(s[i])

\* A Go int (64 bits). The numbers below BigBase are themselves; the numbers
\* BigBase + d, d in 0..5807, stand for 922337203685477dddd, the 5808 largest
\* values of an int, so that MaxInt stands for 9223372036854775807 and MinInt
\* for -9223372036854775808. The texts of the model hold no number between.
BigBase == 1000000000

MaxInt == BigBase + 5807

MinInt == 0 - MaxInt - 1

\* the first fifteen digits of the largest int
MaxInt64Prefix == <<"9", "2", "2", "3", "3", "7", "2", "0", "3", "6", "8", "5", "4", "7", "7">>

\* n + 1 in a Go int: the largest int wraps around to the smallest
IntInc(n) == IF n = MaxInt THEN MinInt ELSE n + 1

RECURSIVE StripZeros(_)
StripZeros(s) == IF Len(s) > 1 /\ s[1] = "0" THEN StripZeros(Tail(s)) ELSE s

\* strconv.ParseInt of decimal digits: past the largest int it returns the
\* largest int and a range error. (The texts of the model hold a number of
\* less than ten digits, one of the 5808 largest ints, or a larger number.)
ParseDigits(s) ==
    LET z == StripZeros(s)
    IN  IF Len(z) < 19 THEN [val |-> DigitsValue(z), err |-> Nil]
        ELSE IF Len(z) = 19 /\ SubSeq(z, 1, 15) = MaxInt64Prefix
                           /\ DigitsValue(SubSeq(z, 16, 19)) <= MaxInt - BigBase
             THEN [val |-> BigBase + DigitsValue(SubSeq(z, 16, 19)), err |-> Nil]
        ELSE [val |-> MaxInt, err |-> "value out of range"]

\* strconv.Atoi: an optional sign and decimal digits; anything else is a
\* syntax error and the value 0
Atoi(s) ==
    IF AllDigits(s) THEN ParseDigits(s)
    ELSE IF Len(s) > 1 /\ s[1] = "+" /\ AllDigits(Tail(s))
         THEN ParseDigits(Tail(s))
    ELSE IF Len(s) > 1 /\ s[1] = "-" /\ AllDigits(Tail(s))
         THEN [val |-> 0 - DigitsValue(Tail(s)), err |-> Nil]
    ELSE [val |-> 0, err |-> "invalid syntax"]

RECURSIVE NatText(_)
NatText(n) ==
    IF n < 10 THEN <<Digits[n + 1]>>
    ELSE NatText(n \div 10) \o <<Digits[(n % 10) + 1]>>

\* the four last digits of one of the largest numbers
LastFour(d) ==
    <<Digits[(d \div 1000) + 1], Digits[((d \div 100) % 10) + 1],
      Digits[((d \div 10) % 10) + 1], Digits[(d % 10) + 1]>>

\* fmt.Sprintf("%d", n)
Itoa(n) ==
    IF n <= 0 - BigBase THEN <<"-">> \o MaxInt64Prefix \o LastFour(0 - n - BigBase)
    ELSE IF n < 0 THEN <<"-">> \o NatText(0 - n)
    ELSE IF n >= BigBase THEN MaxInt64Prefix \o LastFour(n - BigBase)
    ELSE NatText(n)

\* ------------------------------------------------------------------------
\* internal/utils
\* ------------------------------------------------------------------------
\* IsSemVer with a pattern that allows no hash suffix: ^v\d+\.\d+\.\d+$
IsSemVerCoreOnly(tag) ==
    /\ Len(tag) >= 1
    /\ tag[1] = "v"
    /\ LET parts == Split(Tail(tag), ".")
       IN  /\ Len(parts) = 3
           /\ \A i \in 1..3 : AllDigits(parts[i])

\* the pattern ^v\d+\.\d+\.\d+(-[a-zA-Z0-9]+)?$
IsSemVer(tag) ==
    /\ Len(tag) >= 1
    /\ tag[1] = "v"
    /\ LET core == SplitN2(Tail(tag), "-")[1]
           parts == Split(core, ".")
       IN  /\ Len(parts) = 3
           /\ \A i \in 1..3 : AllDigits(parts[i])
           /\ \/ Len(core) = Len(tag) - 1
              \/ LET hash == SubSeq(tag, Len(core) + 3, Len(tag))
                 IN  Len(hash) > 0 /\ \A i \in 1..Len(hash) : IsAlnum(hash[i])

StripHashSuffix(tag) == SplitN2(tag, "-")[1]

WrapErrorf(format, err) == IF err # Nil THEN format ELSE Nil

RECURSIVE CompareParts(_, _, _)
CompareParts(aParts, bParts, i) ==
    IF i > 3 THEN 0
    ELSE LET aNum == Atoi(aParts[i])
             bNum == Atoi(bParts[i])
         IN  IF aNum.err # Nil \/ bNum.err # Nil THEN 0
             ELSE IF aNum.val < bNum.val THEN 0 - 1
             ELSE IF aNum.val > bNum.val THEN 1
             ELSE CompareParts(aParts, bParts, i + 1)

\* utils.CompareSemVer; "panic" when an argument is not a semantic version
CompareSemVer(a, b) ==
    IF ~IsSemVer(a) \/ ~IsSemVer(b) THEN "panic"
    ELSE CompareParts(Split(Tail(a), "."), Split(Tail(b), "."), 1)

\* ------------------------------------------------------------------------
\* internal/git: pure helpers
\* ------------------------------------------------------------------------
isSemVer(tag) == HasPrefix(tag, <<"v">>) /\ Len(Split(Tail(tag), ".")) = 3

RECURSIVE comparePartsUnchecked(_, _, _)
comparePartsUnchecked(aParts, bParts, i) ==
    IF i > 3 THEN 0
    ELSE LET aNum == Atoi(aParts[i]).val
             bNum == Atoi(bParts[i]).val
         IN  IF aNum < bNum THEN 0 - 1
             ELSE IF aNum > bNum THEN 1
             ELSE comparePartsUnchecked(aParts, bParts, i + 1)

\* git.compareSemVer: the Atoi errors are discarded, an unreadable part is 0
compareSemVer(a, b) ==
    comparePartsUnchecked(Split(Tail(a), "."), Split(Tail(b), "."), 1)

\* byte-wise order of two texts
RECURSIVE LexLess(_, _)
LexLess(a, b) ==
    IF b = <<>> THEN FALSE
    ELSE IF a = <<>> THEN TRUE
    ELSE IF a[1] # b[1] THEN Code(a[1]) < Code(b[1])
    ELSE LexLess(Tail(a), Tail(b))

\* the lines `git tag` prints: every tag name, in byte order
RECURSIVE SortedNames(_)
SortedNames(names) ==
    IF names = {} THEN <<>>
    ELSE LET m == CHOOSE x \in names : \A y \in names \ {x} : LexLess(x, y)
         IN  <<m>> \o SortedNames(names \ {m})

\* sort.Slice on a short slice: an insertion sort, x moves left while
\* less(x, predecessor)
RECURSIVE InsertByLess(_, _)
InsertByLess(sorted, x) ==
    IF sorted = <<>> \/ ~(compareSemVer(x, sorted[Len(sorted)]) < 0)
    THEN Append(sorted, x)
    ELSE Append(InsertByLess(SubSeq(sorted, 1, Len(sorted) - 1), x), sorted[Len(sorted)])

RECURSIVE SortSlice(_)
SortSlice(s) ==
    IF s = <<>> THEN <<>>
    ELSE InsertByLess(SortSlice(SubSeq(s, 1, Len(s) - 1)), s[Len(s)])

\* git.GetLatestTag over the output of `git tag` (cmdErr: the command failed)
GetLatestTag(tagNames, cmdErr) ==
    IF cmdErr # Nil
    THEN [tag |-> <<>>, err |-> WrapErrorf("failed to retrieve tags", cmdErr)]
    ELSE LET tagsOut == SortedNames(tagNames)
             semVerTags == SelectSeq(tagsOut, isSemVer)
         IN  IF Len(semVerTags) = 0
             THEN [tag |-> <<>>, err |-> WrapErrorf("no semantic version tags found", cmdErr)]
             ELSE [tag |-> SortSlice(semVerTags)[Len(semVerTags)], err |-> Nil]

\* ------------------------------------------------------------------------
\* internal/version: pure functions
\* ------------------------------------------------------------------------
FormatVersion(major, minor, patch) ==
    <<"v">> \o Itoa(major) \o <<".">> \o Itoa(minor) \o <<".">> \o Itoa(patch)

\* IncrementVersion with the minor case forgetting to reset patch
IncrementVersionKeepsPatch(latestTag, level) ==
    IF ~IsSemVer(latestTag)
    THEN [tag |-> <<>>, err |-> "invalid version format"]
    ELSE LET parts == Split(TrimPrefix(latestTag, <<"v">>), ".")
             major == Atoi(parts[1]).val
             minor == Atoi(parts[2]).val
             patch == Atoi(parts[3]).val
         IN  CASE level = "major" ->
                    [tag |-> FormatVersion(IntInc(major), 0, 0), err |-> Nil]
               [] level = "minor" ->
                    [tag |-> FormatVersion(major, IntInc(minor), patch), err |-> Nil]
               [] level = "patch" ->
                    [tag |-> FormatVersion(major, minor, IntInc(patch)), err |-> Nil]
               [] OTHER ->
                    [tag |-> <<>>, err |-> "unknown version increment level"]

IncrementVersion(latestTag, level) ==
    IF ~IsSemVer(latestTag)
    THEN [tag |-> <<>>, err |-> "invalid version format"]
    ELSE LET parts == Split(TrimPrefix(latestTag, <<"v">>), ".")
         IN  IF Len(parts) # 3
             THEN [tag |-> <<>>, err |-> "invalid version format"]
             ELSE LET major == Atoi(parts[1]).val
                      minor == Atoi(parts[2]).val
                      patch == Atoi(parts[3]).val
                  IN  CASE level = "major" ->
                             [tag |-> FormatVersion(IntInc(major), 0, 0), err |-> Nil]
                        [] level = "minor" ->
                             [tag |-> FormatVersion(major, IntInc(minor), 0), err |-> Nil]
                        [] level = "patch" ->
                             [tag |-> FormatVersion(major, minor, IntInc(patch)), err |-> Nil]
                        [] OTHER ->
                             [tag |-> <<>>, err |-> "unknown version increment level"]

BreakingChange == <<"B", "R", "E", "A", "K", "I", "N", "G", " ", "C", "H", "A", "N", "G", "E">>

determineIncrementLevel(commitMessage) ==
    IF Contains(commitMessage, BreakingChange) THEN "major"
    ELSE IF HasPrefix(commitMessage, <<"f", "e", "a", "t">>) THEN "minor"
    ELSE IF HasPrefix(commitMessage, <<"f", "i", "x">>) THEN "patch"
    ELSE "patch"

\* version.extractVersionTag: the leftmost match of v\d+\.\d+\.\d+ in the
\* message, the empty text when there is none
RECURSIVE DigitRunEnd(_, _)
DigitRunEnd(s, i) ==
    IF i <= Len(s) /\ IsDigit(s[i]) THEN DigitRunEnd(s, i + 1) ELSE i - 1

VersionMatchEnd(s, i) ==
    IF i > Len(s) \/ s[i] # "v" THEN 0
    ELSE LET e1 == DigitRunEnd(s, i + 1)
         IN  IF e1 < i + 1 \/ e1 + 1 > Len(s) \/ s[e1 + 1] # "." THEN 0
             ELSE LET e2 == DigitRunEnd(s, e1 + 2)
                  IN  IF e2 < e1 + 2 \/ e2 + 1 > Len(s) \/ s[e2 + 1] # "." THEN 0
                      ELSE LET e3 == DigitRunEnd(s, e2 + 2)
                           IN  IF e3 < e2 + 2 THEN 0 ELSE e3

extractVersionTag(commitMessage) ==
    IF \E i \in 1..Len(commitMessage) : VersionMatchEnd(commitMessage, i) # 0
    THEN LET i == CHOOSE k \in 1..Len(commitMessage) :
                      /\ VersionMatchEnd(commitMessage, k) # 0
                      /\ \A j \in 1..(k - 1) : VersionMatchEnd(commitMessage, j) = 0
         IN  SubSeq(commitMessage, i, VersionMatchEnd(commitMessage, i))
    ELSE <<>>

\* ------------------------------------------------------------------------
\* Texts of the model
\* ------------------------------------------------------------------------
MsgFeat == <<"f", "e", "a", "t", ":", " ", "a", "d", "d", " ", "x">>

MsgFix == <<"f", "i", "x", ":", " ", "b", "u", "g">>

MsgChore == <<"c", "h", "o", "r", "e", ":", " ", "m", "i", "s", "c">>

MsgBreaking == <<"B", "R", "E", "A", "K", "I", "N", "G", " ", "C", "H", "A", "N", "G", "E", ":", " ", "r", "e", "m", "o", "v", "e", " ", "A", "P", "I">>

MsgRelease == <<"r", "e", "l", "e", "a", "s", "e", " ", "v", "5", ".", "0", ".", "0">>

RunMessages == {MsgFeat, MsgFix, MsgChore, MsgBreaking, MsgRelease}

V000 == <<"v", "0", ".", "0", ".", "0">>

TagV230 == <<"v", "2", ".", "3", ".", "0">>

TagV001 == <<"v", "0", ".", "0", ".", "1">>

TagV12 == <<"v", "1", ".", "2">>

TagV1x0 == <<"v", "1", ".", "x", ".", "0">>

\* names an operator may give to a tag by hand
ManualTagTexts == {TagV230, TagV001, TagV12, TagV1x0}

Branches == {"master", "dev"}

\* the messages the operator writes on each branch
BranchMessages(b) == IF b = "master" THEN RunMessages ELSE {MsgChore}

\* git rev-parse --short: an abbreviated hexadecimal id, one per commit
ShortHashOf(c) == <<"a", "b", "c", "d", "e", "f", Digits[c + 1]>>

\* ------------------------------------------------------------------------
\* State
\* ------------------------------------------------------------------------
VARIABLES
    commits,          \* the commits in creation order: [parent, msg]; the id is the index
    tips,             \* branch -> id of its newest commit, 0 when the branch has none
    tags,             \* the tags: [name, commit, note]; note = id named by the annotation, 0 by hand
    manual,           \* number of tags made by hand
    runs,             \* number of finished runs of UpdateUntaggedCommits
    pc,               \* position of the running UpdateUntaggedCommits, "idle" when none
    branch,           \* its argument
    untaggedCommits,  \* its local untaggedCommits
    idx,              \* index of the commit the loop is at
    latestTag,        \* its local latestTag
    latestErr,        \* its local err after git.GetLatestTag
    coreVersion,      \* its local coreVersion
    currentTag,       \* its local currentTag
    shortHash,        \* its local shortHash
    result,           \* what the run returned: "none", "ok" or the failed call
    created,          \* the tags this run created, in order: [commit, name, version]
    calls,            \* the calls of the git package this run made, in order: [op, commit, name, err]
    fn,               \* the pure function applied last, "none" before
    arg1,             \* its first argument
    arg2,             \* its second argument
    ret,              \* its result
    mainPc,           \* position of the tagger process: "none", "main", "update", "exited"
    isNonInteractive, \* main's isNonInteractive: GIT_POST_COMMIT is set in its environment
    flags,            \* the parsed command line: the four flags, flag.Args and unknown flags
    stderr,           \* "ok", or "failed" when a write of the process to stderr failed
    mainBranch,       \* the branch main passes to UpdateUntaggedCommits
    mainCalls,        \* the branch functions of the git package main called
    hookErr,          \* the error of InstallGitHook / CleanGitHook, Nil when none
    exitCode,         \* the exit status of the process, NoExit while it runs
    head,             \* the branch that is checked out
    hook              \* the file .git/hooks/post-commit: [exists, text]

repoVars == <<commits, tips, tags, manual>>

runVars == <<runs, pc, branch, untaggedCommits, idx, latestTag, latestErr,
             coreVersion, currentTag, shortHash, result, created, calls>>

pureVars == <<fn, arg1, arg2, ret>>

procVars == <<mainPc, isNonInteractive, flags, stderr, mainBranch, mainCalls, hookErr, exitCode>>

mainVars == <<mainPc, isNonInteractive, flags, stderr, mainBranch, mainCalls, hookErr, exitCode,
              head, hook>>

vars == <<commits, tips, tags, manual, runs, pc, branch, untaggedCommits, idx,
          latestTag, latestErr, coreVersion, currentTag, shortHash, result, created,
          calls, fn, arg1, arg2, ret,
          mainPc, isNonInteractive, flags, stderr, mainBranch, mainCalls, hookErr, exitCode,
          head, hook>>

\* ------------------------------------------------------------------------
\* The repository as git reports it
\* ------------------------------------------------------------------------
TagNames == {t.name : t \in tags}

\* git rev-list --reverse: the history of a commit, oldest first
RECURSIVE RevListReverse(_)
RevListReverse(c) ==
    IF c = 0 THEN <<>> ELSE Append(RevListReverse(commits[c].parent), c)

\* the tags that point at c itself (git tag --points-at), not what the code asks
GetTagsForCommitPointsAt(c) == {t.name : t \in {u \in tags : u.commit = c}}

\* git tag --contains c: the tags whose commit has c in its history
GetTagsForCommit(c) ==
    {t.name : t \in {u \in tags : c \in Range(RevListReverse(u.commit))}}

IsUntagged(c) == GetTagsForCommit(c) = {}

\* FindUntagged returning every commit of the branch that no tag points at
FindUntaggedNoOwnTag(b) ==
    SelectSeq(RevListReverse(tips[b]), LAMBDA c : \A u \in tags : u.commit # c)

FindUntagged(b) == SelectSeq(RevListReverse(tips[b]), IsUntagged)

CmdErrs == {Nil, "failed to run git command"}

\* ------------------------------------------------------------------------
\* The operator: commits and tags made by hand
\* ------------------------------------------------------------------------
Commit(b, m) ==
    /\ pc = "idle"
    /\ Len(commits) < MaxCommits
    /\ b = "master" \/ tips["master"] # 0
    /\ commits' = Append(commits,
                         [parent |-> IF tips[b] # 0 THEN tips[b] ELSE tips["master"],
                          msg |-> m])
    /\ tips' = [tips EXCEPT ![b] = Len(commits) + 1]
    /\ UNCHANGED <<tags, manual>>
    /\ UNCHANGED runVars
    /\ UNCHANGED pureVars
    /\ UNCHANGED mainVars

ManualTag(c, name) ==
    /\ pc = "idle"
    /\ manual < MaxManualTags
    /\ c \in 1..Len(commits)
    /\ name \notin TagNames
    /\ tags' = tags \cup {[name |-> name, commit |-> c, note |-> 0]}
    /\ manual' = manual + 1
    /\ UNCHANGED <<commits, tips>>
    /\ UNCHANGED runVars
    /\ UNCHANGED pureVars
    /\ UNCHANGED mainVars

\* ------------------------------------------------------------------------
\* version.UpdateUntaggedCommits, one step per call of the git package
\* ------------------------------------------------------------------------
Return(r) ==
    /\ pc' = "done"
    /\ result' = r

\* a call of the git package: the function, the commit and tag name it is given
\* and the error it returns
Call(op, commit, name, err) == [op |-> op, commit |-> commit, name |-> name, err |-> err]

\* StartRun without the early return on an empty list
StartRunNoEmptyCheck(b, cmdErr) ==
    /\ pc = "idle"
    /\ runs < MaxRuns
    /\ branch' = b
    /\ idx' = 0
    /\ IF cmdErr # Nil \/ b \notin Branches \/ tips[b] = 0
       THEN /\ Return("failed to find untagged commits")
            /\ calls' = <<Call("FindUntagged", 0, <<>>, "failed to run git command")>>
            /\ UNCHANGED untaggedCommits
       ELSE /\ untaggedCommits' = FindUntagged(b)
            /\ calls' = <<Call("FindUntagged", 0, <<>>, Nil)>>
            /\ pc' = "latest"
            /\ UNCHANGED result
    /\ UNCHANGED <<runs, latestTag, latestErr, coreVersion, currentTag, shortHash, created>>
    /\ UNCHANGED repoVars
    /\ UNCHANGED pureVars
    /\ UNCHANGED mainVars

\* git.FindUntagged and the empty check
StartRun(b, cmdErr) ==
    /\ pc = "idle"
    /\ runs < MaxRuns
    /\ branch' = b
    /\ idx' = 0
    /\ IF cmdErr # Nil \/ b \notin Branches \/ tips[b] = 0
       THEN /\ Return("failed to find untagged commits")
            /\ calls' = <<Call("FindUntagged", 0, <<>>, "failed to run git command")>>
            /\ UNCHANGED untaggedCommits
       ELSE LET found == FindUntagged(b)
            IN  /\ untaggedCommits' = found
                /\ calls' = <<Call("FindUntagged", 0, <<>>, Nil)>>
                /\ IF Len(found) = 0
                   THEN Return("ok")
                   ELSE /\ pc' = "latest"
                        /\ UNCHANGED result
    /\ UNCHANGED <<runs, latestTag, latestErr, coreVersion, currentTag, shortHash, created>>
    /\ UNCHANGED repoVars
    /\ UNCHANGED pureVars
    /\ UNCHANGED mainVars

\* git.GetLatestTag, the v0.0.0 fallback and utils.StripHashSuffix
LatestTagStep(cmdErr) ==
    /\ pc = "latest"
    /\ LET r == GetLatestTag(TagNames, cmdErr)
           latest == IF r.err # Nil THEN V000 ELSE r.tag
       IN  /\ latestTag' = latest
           /\ latestErr' = r.err
           /\ coreVersion' = StripHashSuffix(latest)
           /\ currentTag' = StripHashSuffix(latest)
           /\ calls' = Append(calls, Call("GetLatestTag", 0, <<>>, r.err))
    /\ idx' = 1
    /\ pc' = "message"
    /\ UNCHANGED <<runs, branch, untaggedCommits, shortHash, result, created>>
    /\ UNCHANGED repoVars
    /\ UNCHANGED pureVars
    /\ UNCHANGED mainVars

\* MessageStep reading the message a second time when the first read failed
MessageStepRetries(cmdErr) ==
    /\ pc = "message"
    /\ LET commit == untaggedCommits[idx]
           message == commits[commit].msg
           incrementLevel == determineIncrementLevel(message)
           r == IncrementVersion(currentTag, incrementLevel)
           last == calls[Len(calls)]
       IN  /\ calls' = Append(calls, Call("GetCommitMessage", commit, <<>>, cmdErr))
           /\ IF cmdErr # Nil
              THEN /\ IF last.op = "GetCommitMessage" /\ last.commit = commit
                      THEN Return("failed to retrieve commit message")
                      ELSE UNCHANGED <<pc, result>>
                   /\ UNCHANGED currentTag
              ELSE /\ currentTag' = r.tag
                   /\ IF r.err # Nil
                      THEN Return("failed to increment version")
                      ELSE /\ pc' = "short"
                           /\ UNCHANGED result
    /\ UNCHANGED <<runs, branch, untaggedCommits, idx, latestTag, latestErr,
                   coreVersion, shortHash, created>>
    /\ UNCHANGED repoVars
    /\ UNCHANGED pureVars
    /\ UNCHANGED mainVars

\* git.GetCommitMessage, determineIncrementLevel and IncrementVersion
MessageStep(cmdErr) ==
    /\ pc = "message"
    /\ LET commit == untaggedCommits[idx]
           message == commits[commit].msg
           incrementLevel == determineIncrementLevel(message)
           r == IncrementVersion(currentTag, incrementLevel)
       IN  /\ calls' = Append(calls, Call("GetCommitMessage", commit, <<>>, cmdErr))
           /\ IF cmdErr # Nil
              THEN /\ Return("failed to retrieve commit message")
                   /\ UNCHANGED currentTag
              ELSE /\ currentTag' = r.tag
                   /\ IF r.err # Nil
                      THEN Return("failed to increment version")
                      ELSE /\ pc' = "short"
                           /\ UNCHANGED result
    /\ UNCHANGED <<runs, branch, untaggedCommits, idx, latestTag, latestErr,
                   coreVersion, shortHash, created>>
    /\ UNCHANGED repoVars
    /\ UNCHANGED pureVars
    /\ UNCHANGED mainVars

\* ShortHashStep reading the short hash of the run's first commit every time
ShortHashStepFirstCommit(cmdErr) ==
    /\ pc = "short"
    /\ calls' = Append(calls, Call("GetShortCommitHash", untaggedCommits[idx], <<>>, cmdErr))
    /\ IF cmdErr # Nil
       THEN /\ Return("failed to get short hash")
            /\ UNCHANGED shortHash
       ELSE /\ shortHash' = ShortHashOf(untaggedCommits[1])
            /\ pc' = "create"
            /\ UNCHANGED result
    /\ UNCHANGED <<runs, branch, untaggedCommits, idx, latestTag, latestErr,
                   coreVersion, currentTag, created>>
    /\ UNCHANGED repoVars
    /\ UNCHANGED pureVars
    /\ UNCHANGED mainVars

\* ShortHashStep going on to the tag creation when the short hash could not be read
ShortHashStepGoesOn(cmdErr) ==
    /\ pc = "short"
    /\ calls' = Append(calls, Call("GetShortCommitHash", untaggedCommits[idx], <<>>, cmdErr))
    /\ shortHash' = IF cmdErr # Nil THEN <<>> ELSE ShortHashOf(untaggedCommits[idx])
    /\ pc' = "create"
    /\ UNCHANGED result
    /\ UNCHANGED <<runs, branch, untaggedCommits, idx, latestTag, latestErr,
                   coreVersion, currentTag, created>>
    /\ UNCHANGED repoVars
    /\ UNCHANGED pureVars
    /\ UNCHANGED mainVars

\* git.GetShortCommitHash
ShortHashStep(cmdErr) ==
    /\ pc = "short"
    /\ calls' = Append(calls, Call("GetShortCommitHash", untaggedCommits[idx], <<>>, cmdErr))
    /\ IF cmdErr # Nil
       THEN /\ Return("failed to get short hash")
            /\ UNCHANGED shortHash
       ELSE /\ shortHash' = ShortHashOf(untaggedCommits[idx])
            /\ pc' = "create"
            /\ UNCHANGED result
    /\ UNCHANGED <<runs, branch, untaggedCommits, idx, latestTag, latestErr,
                   coreVersion, currentTag, created>>
    /\ UNCHANGED repoVars
    /\ UNCHANGED pureVars
    /\ UNCHANGED mainVars

\* CreateTagStep placing every tag on the first commit of the list
CreateTagStepTagsFirst(cmdErr) ==
    /\ pc = "create"
    /\ LET commit == untaggedCommits[idx]
           tagWithHash == currentTag \o <<"-">> \o shortHash
       IN  IF cmdErr # Nil \/ tagWithHash \in TagNames
           THEN /\ Return("failed to create tag")
                /\ calls' = Append(calls, Call("CreateTag", commit, tagWithHash,
                                                "failed to run git command"))
                /\ UNCHANGED <<tags, created, idx>>
           ELSE /\ calls' = Append(calls, Call("CreateTag", commit, tagWithHash, Nil))
                /\ tags' = tags \cup {[name |-> tagWithHash, commit |-> untaggedCommits[1],
                                        note |-> untaggedCommits[1]]}
                /\ created' = Append(created,
                                     [commit |-> commit, name |-> tagWithHash,
                                      version |-> currentTag])
                /\ IF idx = Len(untaggedCommits)
                   THEN /\ Return("ok")
                        /\ UNCHANGED idx
                   ELSE /\ idx' = idx + 1
                        /\ pc' = "message"
                        /\ UNCHANGED result
    /\ UNCHANGED <<runs, branch, untaggedCommits, latestTag, latestErr,
                   coreVersion, currentTag, shortHash>>
    /\ UNCHANGED <<commits, tips, manual>>
    /\ UNCHANGED pureVars
    /\ UNCHANGED mainVars

\* CreateTagStep with a loop that stops one commit early
CreateTagStepStopsEarly(cmdErr) ==
    /\ pc = "create"
    /\ LET commit == untaggedCommits[idx]
           tagWithHash == currentTag \o <<"-">> \o shortHash
       IN  IF cmdErr # Nil \/ tagWithHash \in TagNames
           THEN /\ Return("failed to create tag")
                /\ calls' = Append(calls, Call("CreateTag", commit, tagWithHash,
                                                "failed to run git command"))
                /\ UNCHANGED <<tags, created, idx>>
           ELSE /\ calls' = Append(calls, Call("CreateTag", commit, tagWithHash, Nil))
                /\ tags' = tags \cup {[name |-> tagWithHash, commit |-> commit, note |-> commit]}
                /\ created' = Append(created,
                                     [commit |-> commit, name |-> tagWithHash,
                                      version |-> currentTag])
                /\ IF idx >= Len(untaggedCommits) - 1
                   THEN /\ Return("ok")
                        /\ UNCHANGED idx
                   ELSE /\ idx' = idx + 1
                        /\ pc' = "message"
                        /\ UNCHANGED result
    /\ UNCHANGED <<runs, branch, untaggedCommits, latestTag, latestErr,
                   coreVersion, currentTag, shortHash>>
    /\ UNCHANGED <<commits, tips, manual>>
    /\ UNCHANGED pureVars
    /\ UNCHANGED mainVars

\* git.CreateTag (git tag -a refuses a name that exists) and the loop's end
CreateTagStep(cmdErr) ==
    /\ pc = "create"
    /\ LET commit == untaggedCommits[idx]
           tagWithHash == currentTag \o <<"-">> \o shortHash
       IN  IF cmdErr # Nil \/ tagWithHash \in TagNames
           THEN /\ Return("failed to create tag")
                /\ calls' = Append(calls, Call("CreateTag", commit, tagWithHash,
                                                "failed to run git command"))
                /\ UNCHANGED <<tags, created, idx>>
           ELSE /\ calls' = Append(calls, Call("CreateTag", commit, tagWithHash, Nil))
                /\ tags' = tags \cup {[name |-> tagWithHash, commit |-> commit, note |-> commit]}
                /\ created' = Append(created,
                                     [commit |-> commit, name |-> tagWithHash,
                                      version |-> currentTag])
                /\ IF idx = Len(untaggedCommits)
                   THEN /\ Return("ok")
                        /\ UNCHANGED idx
                   ELSE /\ idx' = idx + 1
                        /\ pc' = "message"
                        /\ UNCHANGED result
    /\ UNCHANGED <<runs, branch, untaggedCommits, latestTag, latestErr,
                   coreVersion, currentTag, shortHash>>
    /\ UNCHANGED <<commits, tips, manual>>
    /\ UNCHANGED pureVars
    /\ UNCHANGED mainVars

\* the run has returned; its locals are gone
FinishRun ==
    /\ pc = "done"
    /\ mainPc # "update"
    /\ pc' = "idle"
    /\ runs' = runs + 1
    /\ branch' = ""
    /\ untaggedCommits' = <<>>
    /\ idx' = 0
    /\ latestTag' = <<>>
    /\ latestErr' = Nil
    /\ coreVersion' = <<>>
    /\ currentTag' = <<>>
    /\ shortHash' = <<>>
    /\ result' = "none"
    /\ created' = <<>>
    /\ calls' = <<>>
    /\ UNCHANGED repoVars
    /\ UNCHANGED pureVars
    /\ UNCHANGED mainVars

RunInit ==
    /\ runs = 0
    /\ pc = "idle"
    /\ branch = ""
    /\ untaggedCommits = <<>>
    /\ idx = 0
    /\ latestTag = <<>>
    /\ latestErr = Nil
    /\ coreVersion = <<>>
    /\ currentTag = <<>>
    /\ shortHash = <<>>
    /\ result = "none"
    /\ created = <<>>
    /\ calls = <<>>

RepoInit ==
    /\ commits = <<>>
    /\ tips = [b \in Branches |-> 0]
    /\ tags = {}
    /\ manual = 0

PureInit ==
    /\ fn = "none"
    /\ arg1 = <<>>
    /\ arg2 = <<>>
    /\ ret = <<>>

\* no exit status yet
NoExit == 0 - 1

\* the command line without any flag or argument
NoFlags ==
    [branchFlag |-> "", installFlag |-> FALSE, uninstallFlag |-> FALSE,
     versionTagFlag |-> FALSE, args |-> 0, unknown |-> FALSE]

NoHook == [exists |-> FALSE, text |-> <<>>]

ProcInit ==
    /\ mainPc = "none"
    /\ isNonInteractive = FALSE
    /\ flags = NoFlags
    /\ stderr = "ok"
    /\ mainBranch = ""
    /\ mainCalls = <<>>
    /\ hookErr = Nil
    /\ exitCode = NoExit

MainInit ==
    /\ ProcInit
    /\ head = "master"
    /\ hook = NoHook

Init == RepoInit /\ RunInit /\ PureInit /\ MainInit

Next ==
    \/ \E b \in Branches : \E m \in BranchMessages(b) : Commit(b, m)
    \/ \E c \in 1..MaxCommits, name \in ManualTagTexts : ManualTag(c, name)
    \/ \E b \in Branches, cmdErr \in CmdErrs : StartRun(b, cmdErr)
    \/ \E cmdErr \in CmdErrs : LatestTagStep(cmdErr)
    \/ \E cmdErr \in CmdErrs : MessageStep(cmdErr)
    \/ \E cmdErr \in CmdErrs : ShortHashStep(cmdErr)
    \/ \E cmdErr \in CmdErrs : CreateTagStep(cmdErr)
    \/ FinishRun

Spec == Init /\ [][Next]_vars

\* ------------------------------------------------------------------------
\* The post-commit hook file (internal/hooks and the file helpers of utils)
\* ------------------------------------------------------------------------
Whitespace == {" ", "\n", "\t", "\r"}

RECURSIVE TrimLeft(_)
TrimLeft(s) == IF s # <<>> /\ Head(s) \in Whitespace THEN TrimLeft(Tail(s)) ELSE s

RECURSIVE TrimRight(_)
TrimRight(s) ==
    IF s # <<>> /\ s[Len(s)] \in Whitespace THEN TrimRight(SubSeq(s, 1, Len(s) - 1)) ELSE s

\* strings.TrimSpace
TrimSpace(s) == TrimRight(TrimLeft(s))

\* strings.HasSuffix
StringsHasSuffix(s, p) == Len(s) >= Len(p) /\ SubSeq(s, Len(s) - Len(p) + 1, Len(s)) = p

\* the resolved path of <git root>/bin/tagger
ExecPath == <<"/", "r", "/", "b", "i", "n", "/", "t", "a", "g", "g", "e", "r">>

MarkerLine == <<"#", " ", "A", "d", "d", "e", "d", " ", "b", "y", " ", "v", "e", "r", "s", "i", "o", "n", "i", "n", "g", " ", "t", "o", "o", "l">>

ExportLine == <<"e", "x", "p", "o", "r", "t", " ", "G", "I", "T", "_", "P", "O", "S", "T", "_", "C", "O", "M", "M", "I", "T", "=", "\"", "t", "r", "u", "e", "\"">>

VersionTagArg == <<" ", "-", "v", "e", "r", "s", "i", "o", "n", "-", "t", "a", "g">>

\* the text GenerateHookContent formats
HookContent ==
    MarkerLine \o <<"\n", "\n">> \o ExportLine \o <<"\n", "\n">>
    \o <<"#", " ", "E", "x", "e", "c", "u", "t", "e", " ", "t", "h", "e", " ", "v", "e", "r", "s", "i", "o", "n", "i", "n", "g", " ", "t", "o", "o", "l">> \o <<"\n">>
    \o <<"\"">> \o ExecPath \o <<"\"">> \o VersionTagArg \o <<"\n">>

\* a hook the repository's owner wrote
UserHook == <<"#", "!", "/", "b", "i", "n", "/", "s", "h", "\n", "e", "c", "h", "o", " ", "d", "o", "n", "e", "\n">>

\* utils.GenerateHookContent; cmdErr is the error of git rev-parse or EvalSymlinks
GenerateHookContent(cmdErr) ==
    IF cmdErr # Nil
    THEN [content |-> <<>>, err |-> WrapErrorf("failed to get git root directory: %w", cmdErr)]
    ELSE [content |-> HookContent, err |-> Nil]

\* utils.HookContainsFullContent on the text read from the file
HookContainsFullContent(fileContent, requiredContent) ==
    Contains(TrimSpace(fileContent), TrimSpace(requiredContent))

\* utils.AppendLineToFile: the text of the file afterwards
AppendLineToFile(fileContent, content) ==
    LET c1 == IF HasPrefix(content, <<"\n">>) THEN content ELSE <<"\n">> \o content
        c2 == IF StringsHasSuffix(c1, <<"\n">>) THEN c1 ELSE c1 \o <<"\n">>
    IN  fileContent \o c2

\* InstallGitHook appending the block without looking for it in the file
InstallGitHookAlwaysAppends(h, cmdErr, ioErr) ==
    LET g == GenerateHookContent(cmdErr)
    IN  IF g.err # Nil
        THEN [hook |-> h, err |-> WrapErrorf("failed to generate hook content: %w", g.err)]
        ELSE IF h.exists
        THEN IF ioErr # Nil
             THEN [hook |-> h,
                   err |-> WrapErrorf("failed to check existing hook content: %w", ioErr)]
             ELSE [hook |-> [exists |-> TRUE, text |-> AppendLineToFile(h.text, g.content)],
                   err |-> Nil]
        ELSE IF ioErr # Nil
             THEN [hook |-> h, err |-> WrapErrorf("failed to write post-commit hook: %w", ioErr)]
             ELSE [hook |-> [exists |-> TRUE, text |-> g.content], err |-> Nil]

\* hooks.InstallGitHook; ioErr is the error of the first file operation it makes
InstallGitHook(h, cmdErr, ioErr) ==
    LET g == GenerateHookContent(cmdErr)
    IN  IF g.err # Nil
        THEN [hook |-> h, err |-> WrapErrorf("failed to generate hook content: %w", g.err)]
        ELSE IF h.exists
        THEN IF ioErr # Nil
             THEN [hook |-> h,
                   err |-> WrapErrorf("failed to check existing hook content: %w", ioErr)]
             ELSE IF HookContainsFullContent(h.text, g.content)
             THEN [hook |-> h, err |-> Nil]
             ELSE [hook |-> [exists |-> TRUE, text |-> AppendLineToFile(h.text, g.content)],
                   err |-> Nil]
        ELSE IF ioErr # Nil
             THEN [hook |-> h, err |-> WrapErrorf("failed to write post-commit hook: %w", ioErr)]
             ELSE [hook |-> [exists |-> TRUE, text |-> g.content], err |-> Nil]

\* os.ReadFile of a path that is a line of the hook: the lines of a hook are
\* shell commands and comments, none is the path of a file
ReadFile(path) == [text |-> <<>>, err |-> "no such file or directory"]

\* the loop of hooks.CleanGitHook over the lines read, written being the text
\* written to the truncated file so far
RECURSIVE CleanLines(_, _, _, _)
CleanLines(lines, hookLines, inHookBlock, written) ==
    IF lines = <<>>
    THEN [written |-> written, err |-> Nil]
    ELSE LET line == Head(lines)
             trimmedLine == TrimSpace(line)
             file == ReadFile(trimmedLine)
             contains == \E i \in 1..Len(hookLines) :
                             Contains(TrimSpace(file.text), TrimSpace(hookLines[i]))
         IN  IF Contains(trimmedLine, MarkerLine)
             THEN CleanLines(Tail(lines), hookLines, TRUE, written)
             ELSE IF file.err # Nil
             THEN [written |-> written,
                   err |-> WrapErrorf("failed to check hook line: %w", file.err)]
             ELSE IF inHookBlock /\ contains
             THEN CleanLines(Tail(lines), hookLines, TRUE, written)
             ELSE CleanLines(Tail(lines), hookLines, FALSE, written \o line \o <<"\n">>)

\* hooks.CleanGitHook; ioErr is the error of reading the hook file
CleanGitHook(h, cmdErr, ioErr) ==
    LET g == GenerateHookContent(cmdErr)
    IN  IF g.err # Nil
        THEN [hook |-> h, err |-> g.err]
        ELSE IF ~h.exists \/ ioErr # Nil
        THEN [hook |-> h,
              err |-> WrapErrorf("failed to read post-commit hook: %w",
                                 IF ioErr # Nil THEN ioErr ELSE "no such file or directory")]
        ELSE LET r == CleanLines(Split(h.text, "\n"), Split(g.content, "\n"), FALSE, <<>>)
             IN  [hook |-> [exists |-> TRUE, text |-> r.written], err |-> r.err]

\* git running the hook after a commit: the shell goes through the lines; an
\* export of GIT_POST_COMMIT sets the marker for the commands after it, a line
\* ending in -version-tag runs the tagger
RECURSIVE HookRun(_, _)
HookRun(lines, marker) ==
    IF lines = <<>>
    THEN [invoked |-> FALSE, marker |-> marker]
    ELSE LET l == TrimSpace(Head(lines))
         IN  IF l = ExportLine
             THEN HookRun(Tail(lines), TRUE)
             ELSE IF StringsHasSuffix(l, VersionTagArg) /\ ~HasPrefix(l, <<"#">>)
             THEN [invoked |-> TRUE, marker |-> marker]
             ELSE HookRun(Tail(lines), marker)

RunHookScript(text) == HookRun(Split(text, "\n"), FALSE)

\* ------------------------------------------------------------------------
\* cmd/tagger main
\* ------------------------------------------------------------------------
\* utils.LogAndExit: whether it exits (with status 1); w says whether its write
\* to stderr succeeds. It returns without exiting when there is an error to
\* print and the write fails
LogAndExit(err, w) == err = Nil \/ w

\* utils.HandleUnparsedArgs: the status it exits with, NoExit when it returns;
\* w1 and w2 say whether its first and second write to stderr succeed
HandleUnparsedArgs(n, w1, w2) ==
    IF n = 0 THEN NoExit
    ELSE IF w1 THEN 1
    ELSE IF w2 THEN 2
    ELSE NoExit

VersionTagFlags == [NoFlags EXCEPT !.versionTagFlag = TRUE]

\* the command lines the tagger is run with, and whether GIT_POST_COMMIT is set
ExecInputs ==
    ({NoFlags,
      VersionTagFlags,
      [VersionTagFlags EXCEPT !.branchFlag = "master"],
      [VersionTagFlags EXCEPT !.branchFlag = "dev"],
      [VersionTagFlags EXCEPT !.branchFlag = "master", !.args = 1],
      [NoFlags EXCEPT !.installFlag = TRUE],
      [NoFlags EXCEPT !.installFlag = TRUE, !.args = 1],
      [NoFlags EXCEPT !.uninstallFlag = TRUE],
      [VersionTagFlags EXCEPT !.unknown = TRUE]} \X {FALSE})
    \cup
    ({VersionTagFlags,
      [VersionTagFlags EXCEPT !.args = 1],
      [VersionTagFlags EXCEPT !.unknown = TRUE]} \X {TRUE})

\* git branch: the local branches
GetBranches == {b \in Branches : tips[b] # 0}

\* where main is after its first part: the exit status (NoExit when it goes on
\* to UpdateUntaggedCommits), the branch it passes, the branch functions it
\* called, the hook file, the error of the hook operation, and whether every
\* write it made to stderr succeeded
Out(code, b, cs, h, e, w) ==
    [code |-> code, branch |-> b, calls |-> cs, hook |-> h, hookErr |-> e,
     stderr |-> IF w THEN "ok" ELSE "failed"]

\* main.go:26-53 up to the call of UpdateUntaggedCommits
NonInteractiveMain(cmdErr, w) ==
    IF cmdErr # Nil
    THEN Out(1, "", <<"GetCurrentBranch">>, hook, Nil, w)
    ELSE Out(NoExit, head, <<"GetCurrentBranch">>, hook, Nil, TRUE)

\* main.go:56-113 up to the call of UpdateUntaggedCommits; w1 and w2 are the
\* writes of HandleUnparsedArgs, w that of LogAndExit
InteractiveMain(cmdErr, ioErr, w1, w2, w) ==
    LET code == HandleUnparsedArgs(flags.args, w1, w2)
        wa == flags.args = 0 \/ w1
    IN  IF code # NoExit
        THEN Out(code, "", <<>>, hook, Nil, wa)
        ELSE IF flags.versionTagFlag
        THEN IF flags.branchFlag = ""
             THEN IF cmdErr # Nil
                  THEN IF LogAndExit(cmdErr, w)
                       THEN Out(1, "", <<"GetBranches">>, hook, Nil, wa)
                       ELSE Out(NoExit, "", <<"GetBranches">>, hook, Nil, FALSE)
                  ELSE IF GetBranches = {}
                  THEN Out(1, "", <<"GetBranches">>, hook, Nil, wa /\ w)
                  ELSE Out(NoExit, "", <<"GetBranches">>, hook, Nil, wa)
             ELSE Out(NoExit, flags.branchFlag, <<>>, hook, Nil, wa)
        ELSE IF flags.installFlag
        THEN LET r == InstallGitHook(hook, cmdErr, ioErr)
             IN  IF r.err # Nil
                 THEN Out(IF LogAndExit(r.err, w) THEN 1 ELSE 0, "", <<>>, r.hook, r.err, wa /\ w)
                 ELSE Out(0, "", <<>>, r.hook, Nil, wa)
        ELSE IF flags.uninstallFlag
        THEN LET r == CleanGitHook(hook, cmdErr, ioErr)
             IN  IF r.err # Nil
                 THEN Out(IF LogAndExit(r.err, w) THEN 1 ELSE 0, "", <<>>, r.hook, r.err, wa /\ w)
                 ELSE Out(0, "", <<>>, r.hook, Nil, wa)
        ELSE Out(0, "", <<>>, hook, Nil, wa)

\* the operator runs the tagger
Exec(cmd, marker) ==
    /\ mainPc = "none"
    /\ pc = "idle"
    /\ runs < MaxRuns
    /\ mainPc' = "main"
    /\ flags' = cmd
    /\ isNonInteractive' = marker
    /\ UNCHANGED <<stderr, mainBranch, mainCalls, hookErr, exitCode, head, hook>>
    /\ UNCHANGED repoVars
    /\ UNCHANGED runVars
    /\ UNCHANGED pureVars

\* git commit on branch b, which is checked out; git then runs the post-commit
\* hook, which may run the tagger
GitCommit(b, m) ==
    /\ mainPc = "none"
    /\ pc = "idle"
    /\ Len(commits) < MaxCommits
    /\ b = "master" \/ tips["master"] # 0
    /\ commits' = Append(commits,
                         [parent |-> IF tips[b] # 0 THEN tips[b] ELSE tips["master"],
                          msg |-> m])
    /\ tips' = [tips EXCEPT ![b] = Len(commits) + 1]
    /\ head' = b
    /\ LET h == RunHookScript(hook.text)
       IN  IF hook.exists /\ h.invoked
           THEN /\ runs < MaxRuns
                /\ mainPc' = "main"
                /\ flags' = VersionTagFlags
                /\ isNonInteractive' = h.marker
                /\ UNCHANGED <<stderr, mainBranch, mainCalls, hookErr, exitCode>>
           ELSE UNCHANGED procVars
    /\ UNCHANGED <<tags, manual, hook>>
    /\ UNCHANGED runVars
    /\ UNCHANGED pureVars

\* main from flag.Parse to the call of UpdateUntaggedCommits or the exit
MainStart(cmdErr, ioErr, w1, w2, w) ==
    /\ mainPc = "main"
    /\ LET o == IF flags.unknown THEN Out(2, "", <<>>, hook, Nil, TRUE)
                ELSE IF isNonInteractive THEN NonInteractiveMain(cmdErr, w)
                ELSE InteractiveMain(cmdErr, ioErr, w1, w2, w)
       IN  /\ mainPc' = IF o.code = NoExit THEN "update" ELSE "exited"
           /\ exitCode' = o.code
           /\ mainBranch' = o.branch
           /\ mainCalls' = o.calls
           /\ hook' = o.hook
           /\ hookErr' = o.hookErr
           /\ stderr' = o.stderr
    /\ UNCHANGED <<isNonInteractive, flags, head>>
    /\ UNCHANGED repoVars
    /\ UNCHANGED runVars
    /\ UNCHANGED pureVars

\* main calls version.UpdateUntaggedCommits
MainUpdate(cmdErr) ==
    /\ mainPc = "update"
    /\ StartRun(mainBranch, cmdErr)

\* UpdateUntaggedCommits has returned to main: main.go:47-52 and 75-81
MainReturn(w) ==
    /\ mainPc = "update"
    /\ pc = "done"
    /\ LET err == IF result = "ok" THEN Nil ELSE result
       IN  /\ exitCode' = IF err # Nil /\ LogAndExit(err, w) THEN 1 ELSE 0
           /\ stderr' = IF err # Nil /\ ~w THEN "failed" ELSE stderr
           /\ err = Nil => w
    /\ mainPc' = "exited"
    /\ UNCHANGED <<isNonInteractive, flags, mainBranch, mainCalls, hookErr, head, hook>>
    /\ UNCHANGED repoVars
    /\ UNCHANGED runVars
    /\ UNCHANGED pureVars

\* the process is gone
Exited ==
    /\ mainPc = "exited"
    /\ pc = "idle"
    /\ mainPc' = "none"
    /\ isNonInteractive' = FALSE
    /\ flags' = NoFlags
    /\ stderr' = "ok"
    /\ mainBranch' = ""
    /\ mainCalls' = <<>>
    /\ hookErr' = Nil
    /\ exitCode' = NoExit
    /\ UNCHANGED <<head, hook>>
    /\ UNCHANGED repoVars
    /\ UNCHANGED runVars
    /\ UNCHANGED pureVars

InitMain ==
    /\ RepoInit /\ RunInit /\ PureInit /\ ProcInit
    /\ head = "master"
    /\ hook \in {NoHook, [exists |-> TRUE, text |-> UserHook]}

NextMain ==
    \/ \E in \in ExecInputs : Exec(in[1], in[2])
    \/ \E b \in Branches : GitCommit(b, MsgFix)
    \/ \E c \in 1..MaxCommits : ManualTag(c, TagV230)
    \/ \E cmdErr \in CmdErrs, ioErr \in CmdErrs, w1 \in BOOLEAN, w2 \in BOOLEAN, w \in BOOLEAN :
           MainStart(cmdErr, ioErr, w1, w2, w)
    \/ \E cmdErr \in CmdErrs : MainUpdate(cmdErr)
    \/ \E cmdErr \in CmdErrs : LatestTagStep(cmdErr)
    \/ \E cmdErr \in CmdErrs : MessageStep(cmdErr)
    \/ \E cmdErr \in CmdErrs : ShortHashStep(cmdErr)
    \/ \E cmdErr \in CmdErrs : CreateTagStep(cmdErr)
    \/ \E w \in BOOLEAN : MainReturn(w)
    \/ FinishRun
    \/ Exited

SpecMain == InitMain /\ [][NextMain]_vars

\* ------------------------------------------------------------------------
\* The pure functions applied to inputs drawn from bounded sets
\* ------------------------------------------------------------------------
Components == (0..MaxComp) \cup {9, 19}

CanonicalTexts == {FormatVersion(a, b, c) : a \in Components, b \in Components, c \in Components}

HashSuffixes == {<<"-", "a", "b", "c">>, <<"-", "x", "y", "z">>, <<"-", "9", "f", "0", "c", "2", "d", "1">>}

SuffixedTexts ==
    {FormatVersion(1, 2, c) \o h : c \in 0..MaxComp \cup {9}, h \in HashSuffixes}

MalformedTexts ==
    {<<>>, TagV12, TagV1x0, <<"1", ".", "2", ".", "3">>, <<"v", "1", ".", "2", ".", "3", ".", "4">>, <<"v", "1", ".", "2", ".", "3", "-">>,
     <<"v", "1", ".", ".", "3">>, <<"V", "1", ".", "2", ".", "3">>, <<"v", "1", ".", "2", ".", "3", "-", "a", "-", "b">>, <<"r", "e", "l", "e", "a", "s", "e">>}

IncrementTexts == CanonicalTexts \cup SuffixedTexts \cup MalformedTexts \cup {<<"v", "0", "1", ".", "2", ".", "3">>}

Levels == {"major", "minor", "patch"}

LevelInputs == Levels \cup {"", "Major", "build"}

CompareTexts ==
    {FormatVersion(1, b, c) : b \in {0, 2}, c \in 0..MaxComp \cup {9, 10}}
    \cup SuffixedTexts \cup {TagV230, V000, TagV1x0, TagV12}

MessageHeads ==
    {<<>>, <<"f", "e", "a", "t">>, <<"f", "i", "x">>, <<"F", "e", "a", "t">>, <<"F", "I", "X">>, <<"c", "h", "o", "r", "e">>,
     <<"m", "a", "j", "o", "r">>, <<"m", "i", "n", "o", "r">>, <<"p", "a", "t", "c", "h">>, <<"r", "e", "f", "e", "a", "t">>, BreakingChange, <<"b", "r", "e", "a", "k", "i", "n", "g", " ", "c", "h", "a", "n", "g", "e">>}

MessageMids == {<<>>, <<":", " ">>, <<" ">> \o BreakingChange \o <<" ">>}

MessageTails == {<<>>, <<"v", "5", ".", "0", ".", "0">>, <<"b", "u", "m", "p", " ", "t", "o", " ", "v", "1", "0", ".", "2", ".", "3", "3", " ", "n", "o", "w">>, <<"v", "1", ".", "2">>, <<"f", "i", "x">>}

ClassifyMessages ==
    {h \o m \o t : h \in MessageHeads, m \in MessageMids, t \in MessageTails} \cup RunMessages

InitIncrement ==
    /\ RepoInit /\ RunInit /\ MainInit
    /\ fn = "none"
    /\ arg1 \in IncrementTexts
    /\ arg2 \in LevelInputs
    /\ ret = <<>>

ApplyIncrementVersion ==
    /\ fn = "none"
    /\ fn' = "IncrementVersion"
    /\ ret' = IncrementVersion(arg1, arg2)
    /\ UNCHANGED <<arg1, arg2>>
    /\ UNCHANGED repoVars
    /\ UNCHANGED runVars
    /\ UNCHANGED mainVars

SpecIncrement == InitIncrement /\ [][ApplyIncrementVersion]_vars

InitCompare ==
    /\ RepoInit /\ RunInit /\ MainInit
    /\ fn = "none"
    /\ arg1 \in CompareTexts
    /\ arg2 \in CompareTexts
    /\ ret = <<>>

\* utils.CompareSemVer(arg1, arg2)
ApplyCompareSemVer ==
    /\ fn = "none"
    /\ fn' = "CompareSemVer"
    /\ ret' = CompareSemVer(arg1, arg2)
    /\ UNCHANGED <<arg1, arg2>>
    /\ UNCHANGED repoVars
    /\ UNCHANGED runVars
    /\ UNCHANGED mainVars

\* git.compareSemVer(arg1, arg2), on tags that passed git.isSemVer as in GetLatestTag
ApplyGitCompareSemVer ==
    /\ fn = "none"
    /\ isSemVer(arg1) /\ isSemVer(arg2)
    /\ fn' = "compareSemVer"
    /\ ret' = compareSemVer(arg1, arg2)
    /\ UNCHANGED <<arg1, arg2>>
    /\ UNCHANGED repoVars
    /\ UNCHANGED runVars
    /\ UNCHANGED mainVars

NextCompare == ApplyCompareSemVer \/ ApplyGitCompareSemVer

SpecCompare == InitCompare /\ [][NextCompare]_vars

\* version components around the largest int: 2^63 - 2, 2^63 - 1, 2^63, 2^64
OverflowComponents ==
    {<<"0">>, <<"7">>, Itoa(MaxInt - 1), Itoa(MaxInt),
     MaxInt64Prefix \o <<"5", "8", "0", "8">>,
     <<"1", "8", "4", "4", "6", "7", "4", "4", "0", "7", "3", "7", "0", "9", "5", "5", "1", "6", "1", "6">>}

OverflowTexts ==
    {<<"v">> \o a \o <<".">> \o b \o <<".">> \o c :
         a \in OverflowComponents, b \in OverflowComponents, c \in OverflowComponents}

InitOverflow ==
    /\ RepoInit /\ RunInit /\ MainInit
    /\ fn = "none"
    /\ arg1 \in OverflowTexts
    /\ arg2 \in Levels
    /\ ret = <<>>

SpecOverflow == InitOverflow /\ [][ApplyIncrementVersion]_vars

InitClassify ==
    /\ RepoInit /\ RunInit /\ MainInit
    /\ fn = "none"
    /\ arg1 \in ClassifyMessages
    /\ arg2 = <<>>
    /\ ret = <<>>

\* the directive of a message: the level determineIncrementLevel returns; the
\* function returns no version
ApplyDetermineIncrementLevel ==
    /\ fn = "none"
    /\ fn' = "determineIncrementLevel"
    /\ ret' = [level |-> determineIncrementLevel(arg1), version |-> <<>>]
    /\ UNCHANGED <<arg1, arg2>>
    /\ UNCHANGED repoVars
    /\ UNCHANGED runVars
    /\ UNCHANGED mainVars

SpecClassify == InitClassify /\ [][ApplyDetermineIncrementLevel]_vars

\* ------------------------------------------------------------------------
\* What the claims speak of
\* ------------------------------------------------------------------------
\* the numeric (major, minor, patch) of a valid version text, whatever its suffix
Triple(t) ==
    LET parts == Split(SplitN2(Tail(t), "-")[1], ".")
    IN  <<DigitsValue(parts[1]), DigitsValue(parts[2]), DigitsValue(parts[3])>>

TripleCompare(x, y) ==
    IF x[1] # y[1] THEN (IF x[1] < y[1] THEN 0 - 1 ELSE 1)
    ELSE IF x[2] # y[2] THEN (IF x[2] < y[2] THEN 0 - 1 ELSE 1)
    ELSE IF x[3] # y[3] THEN (IF x[3] < y[3] THEN 0 - 1 ELSE 1)
    ELSE 0

Bump(x, level) ==
    CASE level = "major" -> <<x[1] + 1, 0, 0>>
      [] level = "minor" -> <<x[1], x[2] + 1, 0>>
      [] level = "patch" -> <<x[1], x[2], x[3] + 1>>

HasSuffix(t) == IndexOf(t, "-") # 0

\* the run is past the latest-tag lookup of a run that found untagged commits
PastLatest == pc \in {"message", "short", "create", "done"} /\ Len(untaggedCommits) > 0

\* the names of the tags that existed when the run started
StartTagNames == TagNames \ {created[k].name : k \in 1..Len(created)}

ValidStart == {n \in StartTagNames : IsSemVer(n)}

MsgOf(k) == commits[created[k].commit].msg

MatchesKeyword(m) ==
    \/ Contains(m, BreakingChange)
    \/ HasPrefix(m, <<"f", "e", "a", "t">>)
    \/ HasPrefix(m, <<"f", "i", "x">>)

AdapterFailures ==
    {"failed to find untagged commits", "failed to retrieve commit message",
     "failed to get short hash", "failed to create tag"}

\* C1: a run over at least one untagged commit in a repository without any
\* semantic-version tag takes v0.0.0 as its baseline, does not fail for the
\* missing tag, and its first tag carries the increment of v0.0.0 at the level
\* of the first commit's message.
C1_SeedsBaselineV000 ==
    (PastLatest /\ ValidStart = {}) =>
        /\ coreVersion = V000
        /\ result # "failed to increment version"
        /\ Len(created) >= 1 =>
               created[1].version =
                   IncrementVersion(V000, determineIncrementLevel(MsgOf(1))).tag

\* C2: every created version is the increment of its predecessor (the
\* baseline for the first) at the level of its commit's message, so the
\* versions never decrease; and from no tags the messages "feat: add x",
\* "fix: bug", "chore: misc" give v0.1.0-<h1>, v0.1.1-<h2>, v0.1.2-<h3>.
C2_ChainAndScenarioA ==
    /\ \A k \in 1..Len(created) :
           LET prev == IF k = 1 THEN coreVersion ELSE created[k - 1].version
           IN  extractVersionTag(MsgOf(k)) = <<>> =>
                   /\ created[k].version =
                          IncrementVersion(prev, determineIncrementLevel(MsgOf(k))).tag
                   /\ IsSemVer(prev) /\ IsSemVer(created[k].version)
                   /\ TripleCompare(Triple(prev), Triple(created[k].version)) <= 0
    /\ ( /\ pc = "done"
         /\ result \notin AdapterFailures
         /\ StartTagNames = {}
         /\ Len(untaggedCommits) = 3
         /\ [k \in 1..3 |-> commits[untaggedCommits[k]].msg] = <<MsgFeat, MsgFix, MsgChore>> )
       => /\ result = "ok"
          /\ [k \in 1..Len(created) |-> created[k].name] =
                 << <<"v", "0", ".", "1", ".", "0", "-">> \o ShortHashOf(untaggedCommits[1]),
                    <<"v", "0", ".", "1", ".", "1", "-">> \o ShortHashOf(untaggedCommits[2]),
                    <<"v", "0", ".", "1", ".", "2", "-">> \o ShortHashOf(untaggedCommits[3]) >>

\* C3: with T the latest existing semantic-version tag, the first untagged
\* commit of a run (message without explicit version) is tagged
\* IncrementVersion(StripHashSuffix(T), level of its message)-<short hash>.
\* Stated for repositories all of whose tags are valid semantic versions.
C3_FirstTagFromLatest ==
    (PastLatest /\ latestErr = Nil /\ ValidStart # {} /\ StartTagNames = ValidStart) =>
        /\ ~(result = "failed to increment version" /\ Len(created) = 0)
        /\ (Len(created) >= 1 /\ extractVersionTag(MsgOf(1)) = <<>>) =>
               \E t \in ValidStart :
                   /\ \A n \in ValidStart : TripleCompare(Triple(n), Triple(t)) <= 0
                   /\ created[1].name =
                          IncrementVersion(StripHashSuffix(t),
                                           determineIncrementLevel(MsgOf(1))).tag
                          \o <<"-">> \o ShortHashOf(created[1].commit)

\* C4: an untagged commit whose message contains a literal v<d>.<d>.<d> and
\* matches no keyword rule is tagged with exactly that literal, '-' and the
\* commit's short hash.
C4_ExplicitVersionLiteral ==
    \A k \in 1..Len(created) :
        (~MatchesKeyword(MsgOf(k)) /\ extractVersionTag(MsgOf(k)) # <<>>) =>
            created[k].name =
                extractVersionTag(MsgOf(k)) \o <<"-">> \o ShortHashOf(created[k].commit)

\* C5: GetLatestTag returns, among all the repository's tags that are valid
\* semantic versions, one whose (major, minor, patch) is the maximum.
\* Stated for repositories all of whose tags are valid semantic versions.
C5_LatestTagIsMaximum ==
    (PastLatest /\ latestErr = Nil /\ ValidStart # {} /\ StartTagNames = ValidStart) =>
        /\ latestTag \in ValidStart
        /\ \A n \in ValidStart : TripleCompare(Triple(n), Triple(latestTag)) <= 0

\* C6: both version comparisons order valid version tags by the numeric
\* (major, minor, patch) alone: 0 exactly for equal triples, -1 and 1 as the
\* triples order, whatever hash suffix either argument carries.
C6_CompareIsTripleOrder ==
    (fn \in {"CompareSemVer", "compareSemVer"} /\ IsSemVer(arg1) /\ IsSemVer(arg2)) =>
        ret = TripleCompare(Triple(arg1), Triple(arg2))

\* C7: an existing tag that is not a valid semantic version is never returned
\* by GetLatestTag, never becomes the baseline of a run and never makes the
\* run fail.
C7_MalformedTagsIgnored ==
    PastLatest =>
        /\ latestErr = Nil => (latestTag = <<>> \/ IsSemVer(latestTag))
        /\ coreVersion \notin {StripHashSuffix(n) : n \in StartTagNames \ ValidStart}
        /\ result = "failed to increment version" => ~(latestTag \in StartTagNames \ ValidStart)

\* C8: the directive of a message, first match first: contains "BREAKING
\* CHANGE" -> major; starts with "feat" -> minor; starts with "fix" -> patch;
\* contains v<d>.<d>.<d> -> that explicit version; otherwise patch.
C8_ClassifierPrecedence ==
    fn = "determineIncrementLevel" =>
        ret = IF Contains(arg1, BreakingChange) THEN [level |-> "major", version |-> <<>>]
              ELSE IF HasPrefix(arg1, <<"f", "e", "a", "t">>) THEN [level |-> "minor", version |-> <<>>]
              ELSE IF HasPrefix(arg1, <<"f", "i", "x">>) THEN [level |-> "patch", version |-> <<>>]
              ELSE IF extractVersionTag(arg1) # <<>>
                   THEN [level |-> "", version |-> extractVersionTag(arg1)]
              ELSE [level |-> "patch", version |-> <<>>]

C10_ErrorsNeverCoerced ==
    fn = "IncrementVersion" =>
        /\ (arg2 \notin Levels \/ ~IsSemVer(arg1)) => (ret.err # Nil /\ ret.tag = <<>>)
        /\ ret.err = Nil =>
               \A i \in 1..3 : Atoi(Split(TrimPrefix(arg1, <<"v">>), ".")[i]).err = Nil

\* C11: for a valid version text with a hash suffix, vX.Y.Z-<hash>,
\* IncrementVersion returns what it returns for vX.Y.Z, at each of the three
\* levels: the suffix has no part in the numeric triple that is parsed.
C11_SuffixIndependent ==
    (fn = "IncrementVersion" /\ IsSemVer(arg1) /\ HasSuffix(arg1) /\ arg2 \in Levels) =>
        ret = IncrementVersion(StripHashSuffix(arg1), arg2)

\* commit a is c or an ancestor of c
RECURSIVE Reaches(_, _)
Reaches(c, a) == c # 0 /\ (c = a \/ Reaches(commits[c].parent, a))

\* the run's call of FindUntagged succeeded
Found == pc # "idle" /\ calls # <<>> /\ calls[1].err = Nil

\* the tags that existed when the run started
StartTags == {t \in tags : t.name \in StartTagNames}

\* C12: FindUntagged(branch) returns exactly the commits reachable from the
\* branch tip that no existing tag contains, each once, oldest first; a tagged
\* commit and the ancestors of a tagged commit are never returned.
C12_FindUntaggedExact ==
    Found =>
        /\ Range(untaggedCommits) =
               {c \in 1..Len(commits) :
                    /\ Reaches(tips[branch], c)
                    /\ \A t \in StartTags : ~Reaches(t.commit, c)}
        /\ \A i, j \in 1..Len(untaggedCommits) :
               i < j => /\ untaggedCommits[i] # untaggedCommits[j]
                        /\ Reaches(untaggedCommits[j], untaggedCommits[i])

\* three commits in a line, the second one tagged: only the third is returned
C12_Witness ==
    /\ Found
    /\ Len(commits) = 3
    /\ RevListReverse(tips[branch]) = <<1, 2, 3>>
    /\ {t.commit : t \in StartTags} = {2}
    /\ untaggedCommits = <<3>>

\* C13: when FindUntagged returns no commit, UpdateUntaggedCommits returns
\* success at once: it creates no tag and makes no other call of the git
\* package (no latest-tag lookup, no message or short-hash read).
C13_NothingToTag ==
    (Found /\ untaggedCommits = <<>>) =>
        /\ pc = "done"
        /\ result = "ok"
        /\ created = <<>>
        /\ Len(calls) = 1
        /\ latestTag = <<>> /\ currentTag = <<>> /\ shortHash = <<>>

\* a rerun on a branch whose commits an earlier run has tagged
C13_Witness ==
    /\ Found
    /\ untaggedCommits = <<>>
    /\ result = "ok"
    /\ runs = 1
    /\ \E t \in tags : t.note # 0 /\ Reaches(tips[branch], t.commit)

PerCommitFailures ==
    {"failed to retrieve commit message", "failed to get short hash", "failed to create tag"}

\* the position in untaggedCommits of the commit the last call was made for
LastCallAt == CHOOSE k \in 1..Len(untaggedCommits) : untaggedCommits[k] = calls[Len(calls)].commit

\* C14: when reading the message, reading the short hash or creating the tag
\* fails for the k-th untagged commit, the run returns the error at once: the
\* failed call is the run's last call and the only per-commit call that failed,
\* no call is made for a later commit, no tag exists for commit k or a later
\* one, and the tags created for commits 1..k-1 are in the repository.
C14_FailFastNoRollback ==
    (pc = "done" /\ result \in PerCommitFailures) =>
        /\ calls[Len(calls)].err # Nil
        /\ calls[Len(calls)].commit \in Range(untaggedCommits)
        /\ \A i \in 1..(Len(calls) - 1) :
               calls[i].op # "GetLatestTag" => calls[i].err = Nil
        /\ \A i \in 1..Len(calls) :
               calls[i].commit \in {0} \cup {untaggedCommits[j] : j \in 1..LastCallAt}
        /\ [j \in 1..Len(created) |-> created[j].commit] =
               SubSeq(untaggedCommits, 1, LastCallAt - 1)
        /\ \A j \in LastCallAt..Len(untaggedCommits) :
               \A t \in tags : t.commit # untaggedCommits[j]
        /\ \A j \in 1..Len(created) :
               [name |-> created[j].name, commit |-> created[j].commit,
                note |-> created[j].commit] \in tags

\* the short hash of the second of three untagged commits cannot be read
C14_Witness ==
    /\ pc = "done"
    /\ result = "failed to get short hash"
    /\ Len(untaggedCommits) = 3
    /\ Len(created) = 1
    /\ created[1].commit = untaggedCommits[1]

\* C15: every error a call of the git package returns during a run makes
\* UpdateUntaggedCommits return an error; a failure of the command listing the
\* tags in GetLatestTag is never taken as 'no tag yet' with the run going on
\* from v0.0.0.
C15_AdapterErrorsPropagate ==
    pc = "done" =>
        \A i \in 1..Len(calls) :
            calls[i].err # Nil => result # "ok"

\* the CreateTag calls of the run that succeeded, in the order they were made
CreateCalls == SelectSeq(calls, LAMBDA c : c.op = "CreateTag" /\ c.err = Nil)

\* C16: a successful run creates exactly one tag for each commit FindUntagged
\* returned and none for any other commit, and the tags are requested in the
\* order of that list, an older commit's tag before a newer one's.
C16_OneTagEachInOrder ==
    /\ (pc = "done" /\ result = "ok") =>
           /\ [k \in 1..Len(CreateCalls) |-> CreateCalls[k].commit] = untaggedCommits
           /\ \A c \in Range(calls) : c.op = "CreateTag" => c.err = Nil
           /\ \A k \in 1..Len(untaggedCommits) :
                  Cardinality({t \in tags \ StartTags : t.commit = untaggedCommits[k]}) = 1
           /\ \A t \in tags \ StartTags : t.commit \in Range(untaggedCommits)
    /\ \A k \in 1..Len(CreateCalls) : CreateCalls[k].commit = untaggedCommits[k]

\* a successful run over three untagged commits
C16_Witness ==
    /\ pc = "done"
    /\ result = "ok"
    /\ Len(untaggedCommits) = 3
    /\ Cardinality(tags \ StartTags) = 3

\* C17: every tag a run creates is named <currentVersion>-<shortId>, with the
\* version computed for that commit (the increment of the previous one at the
\* level of the commit's message) and the short hash of that same commit; it
\* points at that commit and its annotation names that commit.
C17_TagNameAndTarget ==
    /\ Len(CreateCalls) = Len(created)
    /\ \A k \in 1..Len(created) :
           LET c == CreateCalls[k]
               prev == IF k = 1 THEN coreVersion ELSE created[k - 1].version
           IN  /\ c.commit = created[k].commit
               /\ created[k].version =
                      IncrementVersion(prev, determineIncrementLevel(commits[c.commit].msg)).tag
               /\ c.name = created[k].version \o <<"-">> \o ShortHashOf(c.commit)
               /\ [name |-> c.name, commit |-> c.commit, note |-> c.commit] \in tags
    /\ \A t \in tags :
           t.note # 0 =>
               /\ t.note = t.commit
               /\ Len(t.name) > Len(ShortHashOf(t.commit)) + 1
               /\ SubSeq(t.name, Len(t.name) - Len(ShortHashOf(t.commit)), Len(t.name)) =
                      <<"-">> \o ShortHashOf(t.commit)

\* the second tag of a run: v2.4.0 after the tag v2.3.0, for "fix: bug" and "feat: add x"
C17_Witness ==
    /\ Len(created) = 2
    /\ created[1].version = <<"v", "2", ".", "3", ".", "1">>
    /\ created[2].name = <<"v", "2", ".", "4", ".", "0", "-">> \o ShortHashOf(created[2].commit)
    /\ created[2].commit # created[1].commit

\* the selected operation of the process failed
OperationFailed == hookErr # Nil \/ (pc = "done" /\ result # "ok")

\* C18: the process exits with a non-zero status whenever leftover or
\* unrecognized command-line arguments were given, in every mode, the
\* GIT_POST_COMMIT one included, and whenever the selected operation fails; it
\* exits with 0 only when the operation succeeded; with such arguments no
\* tagging is done. Stated for a process whose writes to stderr succeed.
C18_ExitStatus ==
    (mainPc # "none" /\ stderr = "ok") =>
        /\ (mainPc = "exited" /\ (flags.args > 0 \/ flags.unknown)) =>
               (exitCode # 0 /\ created = <<>>)
        /\ (mainPc = "exited" /\ OperationFailed) => exitCode # 0
        /\ (mainPc = "exited" /\ exitCode = 0) => ~OperationFailed

\* C19: with -version-tag and no -branch value, without the marker, the
\* operator is asked to choose among the existing branches and the tagging
\* runs on the chosen one: UpdateUntaggedCommits is never called with an
\* empty branch name or a branch that is not listed. Stated for a process
\* whose writes to stderr succeed.
C19_BranchIsChosen ==
    (~isNonInteractive /\ flags.versionTagFlag /\ flags.branchFlag = "" /\ stderr = "ok") =>
        /\ mainPc = "update" =>
               /\ \E i \in 1..Len(mainCalls) : mainCalls[i] = "SelectBranch"
               /\ mainBranch \in GetBranches
        /\ (mainPc \in {"update", "exited"} /\ pc # "idle") =>
               (branch # "" /\ branch \in GetBranches)

\* the hook file holds the text InstallGitHook writes
Installed == hook.exists /\ Contains(hook.text, HookContent)

\* C20: the hook InstallGitHook writes sets GIT_POST_COMMIT before it runs the
\* tagger with -version-tag; a process that sees the marker never asks for a
\* branch and runs UpdateUntaggedCommits on the checked-out branch; so a commit
\* made with the hook installed ends up tagged (when no git command fails).
C20_HookTagsEachCommit ==
    /\ Installed => RunHookScript(hook.text) = [invoked |-> TRUE, marker |-> TRUE]
    /\ (mainPc # "none" /\ isNonInteractive) =>
           /\ \A i \in 1..Len(mainCalls) : mainCalls[i] # "SelectBranch"
           /\ mainPc = "update" => mainBranch = head
           /\ (mainPc \in {"update", "exited"} /\ pc # "idle") => branch = head
           /\ ( /\ Installed
                /\ stderr = "ok"
                /\ mainPc = "exited"
                /\ pc = "done"
                /\ \A i \in 1..Len(calls) : calls[i].err = Nil )
              => (exitCode = 0 /\ ~IsUntagged(tips[head]))

\* the lines of a text that are not blank
NonBlankLines(text) == SelectSeq(Split(text, "\n"), LAMBDA l : TrimSpace(l) # <<>>)

\* the lines GenerateHookContent writes, trimmed
BlockLines == {TrimSpace(l) : l \in Range(NonBlankLines(HookContent))}

\* the lines of a hook file that are not part of the tool's block: the block is
\* the marker line and the generated lines that follow it
RECURSIVE OutsideBlock(_, _)
OutsideBlock(lines, inBlock) ==
    IF lines = <<>> THEN <<>>
    ELSE IF Contains(Head(lines), MarkerLine) THEN OutsideBlock(Tail(lines), TRUE)
    ELSE IF inBlock /\ (TrimSpace(Head(lines)) \in BlockLines \/ TrimSpace(Head(lines)) = <<>>)
         THEN OutsideBlock(Tail(lines), TRUE)
    ELSE <<Head(lines)>> \o OutsideBlock(Tail(lines), FALSE)

\* the process has read the hook file in CleanGitHook
CleanedHook ==
    /\ mainPc = "main" /\ mainPc' = "exited"
    /\ ~isNonInteractive /\ ~flags.unknown /\ flags.args = 0
    /\ ~flags.versionTagFlag /\ ~flags.installFlag /\ flags.uninstallFlag
    /\ hook.exists
    /\ hookErr' \notin {"failed to get git root directory: %w", "failed to read post-commit hook: %w"}

\* C21: CleanGitHook removes only what the tool added: the hook file afterwards
\* holds, in their order, the (non-blank) lines that were outside the tool's
\* block, and none of the block's lines.
C21_CleanKeepsForeignLines ==
    [][CleanedHook =>
          /\ NonBlankLines(hook'.text) = SelectSeq(OutsideBlock(Split(hook.text, "\n"), FALSE),
                                                  LAMBDA l : TrimSpace(l) # <<>>)
          /\ \A l \in Range(NonBlankLines(hook'.text)) : TrimSpace(l) \notin BlockLines]_vars

\* the number of places where sub occurs in s
Occurrences(s, sub) ==
    Cardinality({i \in 1..Len(s) :
                     i + Len(sub) - 1 <= Len(s) /\ SubSeq(s, i, i + Len(sub) - 1) = sub})

\* the process has run InstallGitHook over an existing hook file and it succeeded
InstalledOver ==
    /\ mainPc = "main" /\ mainPc' = "exited"
    /\ ~isNonInteractive /\ ~flags.unknown /\ flags.args = 0
    /\ ~flags.versionTagFlag /\ flags.installFlag
    /\ hook.exists
    /\ hookErr' = Nil /\ exitCode' = 0

\* C22: InstallGitHook over a hook file that holds the tool's block leaves the
\* file as it is; over a hook file without the block it appends the block and
\* keeps the text that was there; after any number of installs the file holds
\* exactly one copy of the block.
C22_InstallIdempotent ==
    [][InstalledOver =>
          /\ Occurrences(hook.text, TrimSpace(HookContent)) >= 1 => hook' = hook
          /\ Occurrences(hook.text, TrimSpace(HookContent)) = 0 =>
                 /\ Len(hook'.text) > Len(hook.text)
                 /\ SubSeq(hook'.text, 1, Len(hook.text)) = hook.text
          /\ hook'.exists
          /\ Occurrences(hook'.text, TrimSpace(HookContent)) = 1
          /\ Occurrences(hook'.text, MarkerLine) = 1]_vars

\* an install has succeeded and the owner's hook is followed by one block
C22_Witness ==
    /\ mainPc = "exited" /\ flags.installFlag /\ hookErr = Nil /\ exitCode = 0
    /\ hook.exists
    /\ hook.text = UserHook \o <<"\n">> \o HookContent

WordMajor == <<"m", "a", "j", "o", "r">>

WordMinor == <<"m", "i", "n", "o", "r">>

WordPatch == <<"p", "a", "t", "c", "h">>

\* C23: besides the keywords BREAKING CHANGE, feat and fix, the word "major"
\* in a commit message selects a major increment, the word "minor" a minor
\* increment and the word "patch" a patch increment. Stated for messages that
\* match none of the three keywords and hold one of the words only.
C23_LevelWords ==
    (fn = "determineIncrementLevel" /\ ~MatchesKeyword(arg1)) =>
        /\ (Contains(arg1, WordMajor) /\ ~Contains(arg1, WordMinor) /\ ~Contains(arg1, WordPatch))
               => ret.level = "major"
        /\ (Contains(arg1, WordMinor) /\ ~Contains(arg1, WordMajor) /\ ~Contains(arg1, WordPatch))
               => ret.level = "minor"
        /\ (Contains(arg1, WordPatch) /\ ~Contains(arg1, WordMajor) /\ ~Contains(arg1, WordMinor))
               => ret.level = "patch"

\* the message of the k-th created tag yields an explicit version: it matches
\* no keyword and holds a literal v<d>.<d>.<d>
YieldsExplicit(k) == ~MatchesKeyword(MsgOf(k)) /\ extractVersionTag(MsgOf(k)) # <<>>

\* C24: an explicit version resets the chain: when the message of the k-th
\* untagged commit yields the explicit version V, the version of that commit
\* is V itself, and the next commit (without explicit version) gets
\* IncrementVersion(V, its level), whether V is above or below what preceded.
\* Stated for runs whose listing of the tags succeeded.
C24_ExplicitVersionResetsChain ==
    (PastLatest /\ latestErr = Nil) =>
        \A k \in 1..Len(created) :
            YieldsExplicit(k) =>
                /\ created[k].version = extractVersionTag(MsgOf(k))
                /\ (k < Len(created) /\ ~YieldsExplicit(k + 1)) =>
                       created[k + 1].version =
                           IncrementVersion(extractVersionTag(MsgOf(k)),
                                            determineIncrementLevel(MsgOf(k + 1))).tag

PerCommitOps == <<"GetCommitMessage", "GetShortCommitHash", "CreateTag">>

\* C25: the calls of a run follow a fixed order: FindUntagged, GetLatestTag,
\* then for each commit of the list in turn GetCommitMessage,
\* GetShortCommitHash, CreateTag; the calls for a commit are all made before
\* the first call for the next one, and no call is made twice for a commit,
\* a failed one included.
C25_CallOrder ==
    pc # "idle" =>
        /\ Len(calls) >= 1
        /\ calls[1].op = "FindUntagged"
        /\ Len(calls) >= 2 => calls[2].op = "GetLatestTag"
        /\ \A i \in 3..Len(calls) :
               /\ calls[i].op = PerCommitOps[((i - 3) % 3) + 1]
               /\ ((i - 3) \div 3) + 1 <= Len(untaggedCommits)
               /\ calls[i].commit = untaggedCommits[((i - 3) \div 3) + 1]
        /\ \A i, j \in 1..Len(calls) :
               (i # j) => <<calls[i].op, calls[i].commit>> # <<calls[j].op, calls[j].commit>>
        /\ \A i \in 1..(Len(calls) - 1) :
               calls[i].err # Nil => calls[i + 1].op # calls[i].op

\* a run over two commits has made its eight calls, the second tag failing
C25_Witness ==
    /\ pc = "done"
    /\ Len(untaggedCommits) = 2
    /\ Len(calls) = 8
    /\ calls[8].err # Nil

\* the decimal text of n + 1 for the decimal text of n, of any length
RECURSIVE DecimalSucc(_)
DecimalSucc(s) ==
    IF s = <<>> THEN <<"1">>
    ELSE IF s[Len(s)] = "9" THEN DecimalSucc(SubSeq(s, 1, Len(s) - 1)) \o <<"0">>
    ELSE SubSeq(s, 1, Len(s) - 1) \o <<Digits[DigitVal(s[Len(s)]) + 2]>>

LevelIndex(level) == CASE level = "major" -> 1 [] level = "minor" -> 2 [] level = "patch" -> 3

\* C26: IncrementVersion never wraps silently: for a version with a component
\* at or past the largest int it returns an error, or else a version without
\* any negative component whose incremented component is the successor of the
\* input's.
C26_NoSilentWrap ==
    (fn = "IncrementVersion" /\ IsSemVer(arg1) /\ arg2 \in Levels /\ ret.err = Nil) =>
        LET in == Split(Tail(arg1), ".")
            out == Split(Tail(ret.tag), ".")
        IN  /\ ~Contains(ret.tag, <<"-">>)
            /\ Len(out) = 3
            /\ out[LevelIndex(arg2)] = DecimalSucc(StripZeros(in[LevelIndex(arg2)]))

\* the tags the runs created
RunTags == {t \in tags : t.note # 0}

\* the tags earlier runs created
PriorRunTags == RunTags \cap StartTags

NoExplicitMessages == \A c \in 1..Len(commits) : extractVersionTag(commits[c].msg) = <<>>

\* C27: without explicit-version messages, a later run takes as baseline a
\* version not below the highest one the earlier runs created, so every
\* version it creates is above every version created before and no version
\* is given to two commits. Stated for repositories all of whose tags are valid
\* semantic versions.
C27_RunsContinueChain ==
    (NoExplicitMessages /\ \A t \in tags : IsSemVer(t.name)) =>
        /\ \A t1, t2 \in RunTags :
               t1.commit # t2.commit => StripHashSuffix(t1.name) # StripHashSuffix(t2.name)
        /\ \A k \in 1..Len(created) : \A t \in PriorRunTags :
               TripleCompare(Triple(t.name), Triple(created[k].version)) < 0
        /\ (PastLatest /\ latestErr = Nil /\ PriorRunTags # {}) =>
               /\ IsSemVer(coreVersion)
               /\ \A t \in PriorRunTags :
                      TripleCompare(Triple(t.name), Triple(coreVersion)) <= 0

C29_RerunFindsNothing ==
    /\ []((pc = "done" /\ result = "ok") => FindUntagged(branch) = <<>>)
    /\ [][(pc = "idle" /\ pc' # "idle" /\ calls'[1].err = Nil
              /\ FindUntagged(branch') = <<>>)
          => /\ pc' = "done"
             /\ result' = "ok"
             /\ untaggedCommits' = <<>>
             /\ created' = <<>>
             /\ tags' = tags]_vars

\* the rerun after a run that tagged two commits has returned
C29_Witness ==
    /\ runs = 1
    /\ pc = "done"
    /\ result = "ok"
    /\ untaggedCommits = <<>>
    /\ created = <<>>
    /\ Cardinality({t.commit : t \in RunTags}) = 2
    /\ \A t \in RunTags : Reaches(tips[branch], t.commit)

\* s is the end of t
IsSuffixOf(s, t) == Len(s) <= Len(t) /\ SubSeq(t, Len(t) - Len(s) + 1, Len(t)) = s

\* C30: the commits FindUntagged returns are the newest commits of the branch,
\* without a gap: no commit at or below a tagged commit is returned or tagged
\* by the run, whether it has a tag of its own or not.
C30_UntaggedAreNewest ==
    Found =>
        /\ IsSuffixOf(untaggedCommits, RevListReverse(tips[branch]))
        /\ \A t \in StartTags : \A c \in 1..Len(commits) :
               Reaches(t.commit, c) =>
                   /\ c \notin Range(untaggedCommits)
                   /\ \A k \in 1..Len(created) : created[k].commit # c
                   /\ \A u \in tags \ StartTags : u.commit # c

\* of three commits in a line only the second had a tag: the run tagged the
\* third and left the first, which has no tag of its own
C30_Witness ==
    /\ pc = "done"
    /\ result = "ok"
    /\ RevListReverse(tips[branch]) = <<1, 2, 3>>
    /\ {t.commit : t \in StartTags} = {2}
    /\ Len(created) = 1
    /\ created[1].commit = 3
    /\ \A t \in tags : t.commit # 1

====
